---- MODULE Spec2Model ----
(***************************************************************************)
(* A model of the SAM/SAM2 segmentation runner:                            *)
(*   server/segmentation.py      weight resolution, the process-wide model *)
(*                               cache and the prompt validation that      *)
(*                               precedes model.predict                    *)
(*   server/run_segmentation.py  the command-line entry point              *)
(*                                                                         *)
(* Coordinates are float32 values in the code.  They are modelled as       *)
(* records [nan, v]: v counts 1/Scale-ths of a pixel, nan marks the IEEE   *)
(* not-a-number value, which the JSON decoder of the entry point accepts   *)
(* (the literal NaN) and which every comparison answers with False.        *)
(* Rounding of float32 is not modelled.                                    *)
(***************************************************************************)
EXTENDS Integers, Sequences, FiniteSets, TLC

VARIABLES
    env,          \* os.environ at import time: variable name -> value or Unset
    model_files,  \* SAM_MODEL_FILES and SAM2_MODEL_FILES, evaluated at import
    available,    \* UltralyticsSAM is not None (the import succeeded)
    model_cache,  \* _model_cache: cache key -> model instance
    constructed,  \* the calls of UltralyticsSAM(weights_path) so far, in order
    requests,     \* number of requests served by this process
    pc,           \* position of the process
    req,          \* the inputs of the current request
    res,          \* the outcome of the current request
    steps,        \* the steps the command-line run has executed, in order
    outfile       \* what exists at the output path: none, dir, partial, file

vars == <<env, model_files, available, model_cache, constructed, requests, pc, req, res, steps, outfile>>

----------------------------------------------------------------------------
(* Bounds of the model *)

Scale == 2          \* sub-pixel resolution: a coordinate v stands for v/Scale pixels
MaxDim == 3         \* an image is 1 or MaxDim pixels wide, and 1 or MaxDim pixels high
MaxPoints == 2      \* at most MaxPoints prompt points (and up to MaxPoints + 1 labels)
MaxRequests == 3    \* requests served by one library process

Max(a, b) == IF a >= b THEN a ELSE b
Min(a, b) == IF a <= b THEN a ELSE b

----------------------------------------------------------------------------
(* Python / numpy values *)

\* Optional[...] arguments: None, or a supplied value
None == [none |-> TRUE, val |-> <<>>]
Some(v) == [none |-> FALSE, val |-> v]

\* float32 scalars
F(v) == [nan |-> FALSE, v |-> v]
NaN == [nan |-> TRUE, v |-> 0]

\* np.clip(x, lo, hi) = minimum(maximum(x, lo), hi); NaN propagates
np_clip(x, lo, hi) == IF x.nan THEN x ELSE F(Min(Max(x.v, lo), hi))

\* a <= b on floats: False as soon as one side is NaN
f_le(a, b) == ~a.nan /\ ~b.nan /\ a.v <= b.v

\* abs(a - b) < 1 on floats (1 pixel = Scale units): False when the difference is NaN
f_absdiff_lt1(a, b) ==
    ~a.nan /\ ~b.nan /\ (IF a.v >= b.v THEN a.v - b.v ELSE b.v - a.v) < Scale

----------------------------------------------------------------------------
(* segmentation.py: weight resolution and the model cache *)

VALID_MODEL_SIZES == {"tiny", "small", "base", "large"}

\* os.getenv's answer for a variable that is not set
Unset == "<unset>"

\* os.getenv(name, default) under environment e
os_getenv(e, name, default) == IF e[name] = Unset THEN default ELSE e[name]

\* Python's  a or b  on Optional[str]: b when a is None or empty
py_or(a, b) == IF a = Unset \/ a = "" THEN b ELSE a

\* str.lower() on the size strings the model uses
str_lower(s) ==
    CASE s = "BASE" -> "base"
      [] s = "Tiny" -> "tiny"
      [] OTHER -> s

\* lines 20-25
SAM_MODEL_FILES(e) ==
    [size \in VALID_MODEL_SIZES |->
        CASE size = "tiny" -> os_getenv(e, "SAM_MODEL_TINY_PATH", "sam_t.pt")
          [] size = "small" -> os_getenv(e, "SAM_MODEL_SMALL_PATH", "sam_s.pt")
          [] size = "base" -> py_or(e["SAM_MODEL_PATH"],
                                    os_getenv(e, "SAM_MODEL_BASE_PATH", "sam_b.pt"))
          [] size = "large" -> os_getenv(e, "SAM_MODEL_LARGE_PATH", "sam_l.pt")]

\* lines 27-32
SAM2_MODEL_FILES(e) ==
    [size \in VALID_MODEL_SIZES |->
        CASE size = "tiny" -> os_getenv(e, "SAM2_MODEL_TINY_PATH", "sam2_t.pt")
          [] size = "small" -> os_getenv(e, "SAM2_MODEL_SMALL_PATH", "sam2_s.pt")
          [] size = "base" -> py_or(e["SAM2_MODEL_PATH"],
                                    os_getenv(e, "SAM2_MODEL_BASE_PATH", "sam2_b.pt"))
          [] size = "large" -> os_getenv(e, "SAM2_MODEL_LARGE_PATH", "sam2_l.pt")]

\* the two tables as the module holds them after import
ModuleFiles(e) == [sam |-> SAM_MODEL_FILES(e), sam2 |-> SAM2_MODEL_FILES(e)]

\* lines 37-52; files: the two tables
_resolve_weights_NoEmptyCheck(files, algorithm, size) ==
    LET sz == str_lower(size)
    IN  IF sz \notin VALID_MODEL_SIZES
        THEN [error |-> "ValueError: unsupported size", weights |-> ""]
        ELSE IF algorithm = "sam"
        THEN [error |-> "", weights |-> files.sam[sz]]
        ELSE IF algorithm = "sam2"
        THEN [error |-> "", weights |-> files.sam2[sz]]
        ELSE [error |-> "ValueError: unsupported algorithm", weights |-> ""]
_resolve_weights(files, algorithm, size) ==
    LET sz == str_lower(size)
    IN  IF sz \notin VALID_MODEL_SIZES
        THEN [error |-> "ValueError: unsupported size", weights |-> ""]
        ELSE IF algorithm \notin {"sam", "sam2"}
        THEN [error |-> "ValueError: unsupported algorithm", weights |-> ""]
        ELSE LET weights == IF algorithm = "sam" THEN files.sam[sz] ELSE files.sam2[sz]
             IN  IF weights = ""
                 THEN [error |-> "ValueError: weights not configured", weights |-> ""]
                 ELSE [error |-> "", weights |-> weights]

\* line 59
cache_key(algorithm, size) == algorithm \o ":" \o str_lower(size)

NoModel == 0

\* lines 55-66.  A model instance is named by the position of its construction in
\* the log of constructor calls; ctor_ok: whether UltralyticsSAM(weights_path)
\* returned (it raises when the weights cannot be read or fetched).
_load_model_NoCacheLookup(files, avail, cache, ctor, algorithm, size, ctor_ok) ==
    LET key == cache_key(algorithm, size)
        r == _resolve_weights(files, algorithm, size)
        log == Append(ctor, [key |-> key, weights |-> r.weights, ok |-> ctor_ok])
    IN  IF ~avail
        THEN [error |-> "RuntimeError: SAM unavailable", model |-> NoModel,
              cache |-> cache, constructed |-> ctor]
        ELSE IF r.error # ""
        THEN [error |-> r.error, model |-> NoModel, cache |-> cache, constructed |-> ctor]
        ELSE IF ~ctor_ok
        THEN [error |-> "Exception: model constructor", model |-> NoModel,
              cache |-> cache, constructed |-> log]
        ELSE [error |-> "", model |-> Len(log),
              cache |-> [k \in DOMAIN cache \cup {key} |->
                            IF k = key THEN Len(log) ELSE cache[k]],
              constructed |-> log]
_load_model(files, avail, cache, ctor, algorithm, size, ctor_ok) ==
    LET key == cache_key(algorithm, size)
        r == _resolve_weights(files, algorithm, size)
        log == Append(ctor, [key |-> key, weights |-> r.weights, ok |-> ctor_ok])
    IN  IF ~avail
        THEN [error |-> "RuntimeError: SAM unavailable", model |-> NoModel,
              cache |-> cache, constructed |-> ctor]
        ELSE IF key \in DOMAIN cache
        THEN [error |-> "", model |-> cache[key], cache |-> cache, constructed |-> ctor]
        ELSE IF r.error # ""
        THEN [error |-> r.error, model |-> NoModel, cache |-> cache, constructed |-> ctor]
        ELSE IF ~ctor_ok
        THEN [error |-> "Exception: model constructor", model |-> NoModel,
              cache |-> cache, constructed |-> log]
        ELSE [error |-> "", model |-> Len(log),
              cache |-> [k \in DOMAIN cache \cup {key} |->
                            IF k = key THEN Len(log) ELSE cache[k]],
              constructed |-> log]

----------------------------------------------------------------------------
(* segmentation.py: _segment_with_model *)

NoPredict == [called |-> FALSE, bboxes |-> <<>>, points |-> <<>>, labels |-> <<>>]

\* lines 85-99: the box branch, up to the call of model.predict
BoxPrompt(img, bbox) ==
    IF bbox.none
    THEN [error |-> "ValueError: bbox required", predict |-> NoPredict]
    ELSE IF Len(bbox.val) # 4
    THEN [error |-> "ValueError: bbox needs 4 values", predict |-> NoPredict]
    ELSE LET x1 == np_clip(bbox.val[1], 0, (img.w - 1) * Scale)
             x2 == np_clip(bbox.val[3], 0, (img.w - 1) * Scale)
             y1 == np_clip(bbox.val[2], 0, (img.h - 1) * Scale)
             y2 == np_clip(bbox.val[4], 0, (img.h - 1) * Scale)
             x_min == IF f_le(x1, x2) THEN x1 ELSE x2
             x_max == IF f_le(x1, x2) THEN x2 ELSE x1
             y_min == IF f_le(y1, y2) THEN y1 ELSE y2
             y_max == IF f_le(y1, y2) THEN y2 ELSE y1
         IN  IF f_absdiff_lt1(x_max, x_min) \/ f_absdiff_lt1(y_max, y_min)
             THEN [error |-> "ValueError: bbox too small", predict |-> NoPredict]
             ELSE [error |-> "",
                   predict |-> [called |-> TRUE,
                                bboxes |-> << <<x_min, y_min, x_max, y_max>> >>,
                                points |-> <<>>, labels |-> <<>>]]

\* line 112: np.clip(label_arr, 0, 1) on one int32 label
ClipLabel_Identity(l) == l
ClipLabel(l) == Min(Max(l, 0), 1)

\* lines 106-112: the label vector for n points
LabelArr_NoCountCheck(labels, n) ==
    IF ~labels.none
    THEN [error |-> "", arr |-> [i \in 1..Len(labels.val) |-> ClipLabel(labels.val[i])]]
    ELSE [error |-> "", arr |-> [i \in 1..n |-> ClipLabel(1)]]
LabelArr(labels, n) ==
    IF ~labels.none
    THEN IF Len(labels.val) # n
         THEN [error |-> "ValueError: label count", arr |-> <<>>]
         ELSE [error |-> "", arr |-> [i \in 1..n |-> ClipLabel(labels.val[i])]]
    ELSE [error |-> "", arr |-> [i \in 1..n |-> ClipLabel(1)]]

\* lines 100-113: the point branch, up to the call of model.predict
PointPrompt(img, points, labels) ==
    IF points.none \/ Len(points.val) = 0
    THEN [error |-> "ValueError: no points", predict |-> NoPredict]
    ELSE IF \E i \in 1..Len(points.val) : Len(points.val[i]) # 2
    THEN [error |-> "ValueError: point shape", predict |-> NoPredict]
    ELSE LET l == LabelArr(labels, Len(points.val))
         IN  IF l.error # ""
             THEN [error |-> l.error, predict |-> NoPredict]
             ELSE [error |-> "",
                   predict |-> [called |-> TRUE, bboxes |-> <<>>,
                                points |-> points.val, labels |-> l.arr]]

\* lines 78-113: decode the image, validate the prompt, call model.predict
Prompt(image, points, labels, bbox, prompt_type) ==
    IF ~image.valid
    THEN [error |-> "ValueError: invalid image", predict |-> NoPredict]
    ELSE IF prompt_type = "box"
    THEN BoxPrompt(image, bbox)
    ELSE PointPrompt(image, points, labels)

\* lines 115-135: the result check, the mask post-processing and the PNG encoding
PostProcess_NoResultCheck(masks, success) ==
    IF ~success THEN [error |-> "RuntimeError: encode failed", png |-> FALSE]
    ELSE [error |-> "", png |-> TRUE]
PostProcess(masks, success) ==
    IF ~masks THEN [error |-> "ValueError: no result", png |-> FALSE]
    ELSE IF ~success THEN [error |-> "RuntimeError: encode failed", png |-> FALSE]
    ELSE [error |-> "", png |-> TRUE]

\* lines 69-135.  masks: whether model.predict returned a mask; success: whether
\* cv2.imencode succeeded (both decided by the external libraries)
_segment_with_model(image, points, labels, bbox, prompt_type, masks, success) ==
    LET p == Prompt(image, points, labels, bbox, prompt_type)
    IN  IF p.error # ""
        THEN [error |-> p.error, predict |-> p.predict, png |-> FALSE]
        ELSE LET q == PostProcess(masks, success)
             IN  [error |-> q.error, predict |-> p.predict, png |-> q.png]

----------------------------------------------------------------------------
(* segmentation.py: segment_image / segment_image_sam2, called repeatedly by one
   process *)

\* lines 147-155 and 167-175: load (or reuse) the model, then segment with it.
\* q: the arguments; o: what the external libraries answer during this call
LoadAndSegment(algorithm, q, o) ==
    LET m == _load_model(model_files, available, model_cache, constructed,
                         algorithm, q.model_size, o.ctor_ok)
        g == _segment_with_model(q.image, q.points, q.labels, q.bbox, q.prompt_type,
                                 o.masks, o.success)
    IN  IF m.error # ""
        THEN [error |-> m.error, model |-> NoModel, predict |-> NoPredict, png |-> FALSE,
              cache |-> m.cache, constructed |-> m.constructed]
        ELSE [error |-> g.error, model |-> m.model, predict |-> g.predict, png |-> g.png,
              cache |-> m.cache, constructed |-> m.constructed]

segment_image(q, o) == LoadAndSegment("sam", q, o)
segment_image_sam2(q, o) == LoadAndSegment("sam2", q, o)

EnvVars ==
    {"SAM_MODEL_TINY_PATH", "SAM_MODEL_SMALL_PATH", "SAM_MODEL_PATH",
     "SAM_MODEL_BASE_PATH", "SAM_MODEL_LARGE_PATH",
     "SAM2_MODEL_TINY_PATH", "SAM2_MODEL_SMALL_PATH", "SAM2_MODEL_PATH",
     "SAM2_MODEL_BASE_PATH", "SAM2_MODEL_LARGE_PATH"}

NoEnv == [n \in EnvVars |-> Unset]

\* environments of the library process: nothing set, one size left empty, the
\* base size configured through either of its two variables
LibEnvs ==
    {NoEnv,
     [NoEnv EXCEPT !["SAM_MODEL_TINY_PATH"] = ""],
     [NoEnv EXCEPT !["SAM2_MODEL_BASE_PATH"] = ""],
     [NoEnv EXCEPT !["SAM_MODEL_PATH"] = "a.pt", !["SAM2_MODEL_BASE_PATH"] = "b.pt"]}

\* model sizes a caller passes: two supported ones, an upper-case spelling, an
\* unsupported one
SizeInputs == {"tiny", "base", "BASE", "huge"}

FullImage == [valid |-> TRUE, w |-> MaxDim, h |-> MaxDim]

\* a valid point prompt, a valid box prompt, a point prompt without points
LibPrompts ==
    {[image |-> FullImage, prompt_type |-> "point", bbox |-> None,
      points |-> Some(<< <<F(0), F(0)>> >>), labels |-> None],
     [image |-> FullImage, prompt_type |-> "box",
      bbox |-> Some(<<F(Scale), F(0), F(0), F(Scale)>>), points |-> None, labels |-> None],
     [image |-> FullImage, prompt_type |-> "point", bbox |-> None,
      points |-> None, labels |-> None]}

LibRequests ==
    {[kind |-> "lib", model_size |-> sz, image |-> p.image, prompt_type |-> p.prompt_type,
      bbox |-> p.bbox, points |-> p.points, labels |-> p.labels]
        : sz \in SizeInputs, p \in LibPrompts}

\* what the external libraries answer during one call: all succeed, the model
\* constructor raises, model.predict returns no mask, cv2.imencode fails
Oracles ==
    {[ctor_ok |-> TRUE, masks |-> TRUE, success |-> TRUE],
     [ctor_ok |-> FALSE, masks |-> TRUE, success |-> TRUE],
     [ctor_ok |-> TRUE, masks |-> FALSE, success |-> TRUE],
     [ctor_ok |-> TRUE, masks |-> TRUE, success |-> FALSE]}

NoReq == [kind |-> "none"]
NoLibRes == [error |-> "", model |-> NoModel, predict |-> NoPredict, png |-> FALSE]

Init ==
    /\ env \in LibEnvs
    /\ model_files = ModuleFiles(env)
    /\ available \in BOOLEAN
    /\ model_cache = <<>>
    /\ constructed = <<>>
    /\ requests = 0
    /\ pc = "idle"
    /\ req = NoReq
    /\ res = NoLibRes
    /\ steps = <<>>
    /\ outfile = "none"

Serve(algorithm, q, r) ==
    /\ req' = [kind |-> "lib", algorithm |-> algorithm, model_size |-> q.model_size,
               image |-> q.image, prompt_type |-> q.prompt_type, bbox |-> q.bbox,
               points |-> q.points, labels |-> q.labels]
    /\ res' = [error |-> r.error, model |-> r.model, predict |-> r.predict, png |-> r.png]
    /\ model_cache' = r.cache
    /\ constructed' = r.constructed
    /\ requests' = requests + 1
    /\ UNCHANGED <<env, model_files, available, pc, steps, outfile>>

\* one call of segment_image
SegmentImage ==
    /\ pc = "idle" /\ requests < MaxRequests
    /\ \E q \in LibRequests, o \in Oracles : Serve("sam", q, segment_image(q, o))

\* one call of segment_image_sam2
SegmentImageSam2 ==
    /\ pc = "idle" /\ requests < MaxRequests
    /\ \E q \in LibRequests, o \in Oracles : Serve("sam2", q, segment_image_sam2(q, o))

Next == SegmentImage \/ SegmentImageSam2

Spec == Init /\ [][Next]_vars

----------------------------------------------------------------------------
(* Weight resolution under every environment (SpecConfig) *)

EnvValues == {Unset, "", "a.pt", "b.pt"}

\* the four variables of the base size range over every value; the variables of
\* the other sizes are all unset, all empty or all set
ConfigEnvs ==
    {[n \in EnvVars |->
        CASE n = "SAM_MODEL_PATH" -> a
          [] n = "SAM_MODEL_BASE_PATH" -> b
          [] n = "SAM2_MODEL_PATH" -> c
          [] n = "SAM2_MODEL_BASE_PATH" -> d
          [] OTHER -> o]
        : a \in EnvValues, b \in EnvValues, c \in EnvValues, d \in EnvValues,
          o \in {Unset, "", "a.pt"}}

InitConfig ==
    /\ env \in ConfigEnvs
    /\ model_files = <<>>
    /\ available = TRUE
    /\ model_cache = <<>>
    /\ constructed = <<>>
    /\ requests = 0
    /\ pc = "import"
    /\ req = NoReq
    /\ res = [error |-> "", weights |-> ""]
    /\ steps = <<>>
    /\ outfile = "none"

\* import segmentation: the two tables are evaluated once, from the environment
ImportModule ==
    /\ pc = "import"
    /\ model_files' = ModuleFiles(env)
    /\ pc' = "ready"
    /\ UNCHANGED <<env, available, model_cache, constructed, requests, req, res, steps, outfile>>

\* one call of _resolve_weights
ResolveWeights ==
    /\ pc = "ready"
    /\ \E algorithm \in {"sam", "sam2"}, size \in SizeInputs \cup VALID_MODEL_SIZES :
          /\ req' = [kind |-> "resolve", algorithm |-> algorithm, model_size |-> size]
          /\ res' = _resolve_weights(model_files, algorithm, size)
    /\ pc' = "resolved"
    /\ UNCHANGED <<env, model_files, available, model_cache, constructed, requests, steps, outfile>>

NextConfig == ImportModule \/ ResolveWeights

SpecConfig == InitConfig /\ [][NextConfig]_vars

----------------------------------------------------------------------------
(* run_segmentation.py: one run of the command-line entry point (SpecCLI) *)

\* a --xxx-b64 argument: not given, given empty, given but not decodable as
\* base64 JSON, or the base64 of a JSON document (None: the document null)
AbsentArg == [form |-> "absent", json |-> None]
EmptyArg == [form |-> "empty", json |-> None]
MalformedArg == [form |-> "malformed", json |-> None]
JsonArg(v) == [form |-> "json", json |-> v]

\* lines 10-14
decode_json_b64(value) ==
    IF value.form \in {"absent", "empty"}
    THEN [error |-> "", val |-> None]
    ELSE IF value.form = "malformed"
    THEN [error |-> "ValueError: payload decoding", val |-> None]
    ELSE [error |-> "", val |-> value.json]

\* line 34
BboxMissing_Never(prompt_type, bbox) == FALSE
BboxMissing(prompt_type, bbox) == prompt_type = "box" /\ bbox.none

CliArgs ==
    {[kind |-> "cli", readable |-> i.readable, image |-> i.image, algorithm |-> a,
      model_size |-> sz, prompt_type |-> t, points_b64 |-> p, labels_b64 |-> l,
      bbox_b64 |-> b]
        : i \in {[readable |-> FALSE, image |-> [valid |-> FALSE, w |-> 0, h |-> 0]],
                 [readable |-> TRUE, image |-> [valid |-> FALSE, w |-> 0, h |-> 0]],
                 [readable |-> TRUE, image |-> FullImage]},
          a \in {"sam", "sam2"},
          sz \in {"base", "huge"},
          t \in {"point", "box"},
          p \in {AbsentArg, MalformedArg, JsonArg(Some(<< <<F(0), F(0)>> >>))},
          l \in {AbsentArg, JsonArg(Some(<<1>>)), JsonArg(Some(<<1, 1>>))},
          b \in {AbsentArg, EmptyArg, MalformedArg, JsonArg(None), JsonArg(Some(<<>>)),
                 JsonArg(Some(<<F(Scale), F(0), F(0), F(Scale)>>))}}

NoCliRes ==
    [error |-> "", points |-> None, labels |-> None, bbox |-> None, model |-> NoModel,
     predict |-> NoPredict, masks |-> FALSE, png |-> FALSE]

InitCLI ==
    /\ env \in LibEnvs
    /\ model_files = ModuleFiles(env)
    /\ available \in BOOLEAN
    /\ model_cache = <<>>
    /\ constructed = <<>>
    /\ requests = 0
    /\ pc = "read"
    /\ req \in CliArgs
    /\ res = NoCliRes
    /\ steps = <<>>
    /\ outfile = "none"

\* an exception leaves main: the process ends
Fail(e) == pc' = "failed" /\ res' = [res EXCEPT !.error = e]

\* line 29
ReadImage ==
    /\ pc = "read"
    /\ steps' = Append(steps, "read")
    /\ IF req.readable THEN pc' = "decode" /\ res' = res
       ELSE Fail("OSError: cannot read image")
    /\ UNCHANGED <<env, model_files, available, model_cache, constructed, requests, req, outfile>>

\* lines 30-32
DecodePrompts ==
    /\ pc = "decode"
    /\ steps' = Append(steps, "decode")
    /\ LET p == decode_json_b64(req.points_b64)
           l == decode_json_b64(req.labels_b64)
           b == decode_json_b64(req.bbox_b64)
       IN  IF p.error # "" THEN Fail(p.error)
           ELSE IF l.error # "" THEN Fail(l.error)
           ELSE IF b.error # "" THEN Fail(b.error)
           ELSE /\ pc' = "check"
                /\ res' = [res EXCEPT !.points = p.val, !.labels = l.val, !.bbox = b.val]
    /\ UNCHANGED <<env, model_files, available, model_cache, constructed, requests, req, outfile>>

\* lines 34-35
CheckBbox ==
    /\ pc = "check"
    /\ steps' = Append(steps, "check")
    /\ IF BboxMissing(req.prompt_type, res.bbox)
       THEN Fail("SystemExit: bbox required")
       ELSE pc' = "load" /\ res' = res
    /\ UNCHANGED <<env, model_files, available, model_cache, constructed, requests, req, outfile>>

\* lines 37-54, segmentation.py lines 147 and 167: the model of the chosen algorithm
LoadModel ==
    /\ pc = "load"
    /\ steps' = Append(steps, "load")
    /\ \E ctor_ok \in BOOLEAN :
          LET m == _load_model(model_files, available, model_cache, constructed,
                               IF req.algorithm = "sam2" THEN "sam2" ELSE "sam",
                               req.model_size, ctor_ok)
          IN  /\ model_cache' = m.cache
              /\ constructed' = m.constructed
              /\ IF m.error # "" THEN Fail(m.error)
                 ELSE pc' = "validate" /\ res' = [res EXCEPT !.model = m.model]
    /\ UNCHANGED <<env, model_files, available, requests, req, outfile>>

\* segmentation.py lines 78-112: decode the image, validate the prompt
ValidatePrompt ==
    /\ pc = "validate"
    /\ steps' = Append(steps, "validate")
    /\ LET p == Prompt(req.image, res.points, res.labels, res.bbox, req.prompt_type)
       IN  IF p.error # "" THEN Fail(p.error)
           ELSE /\ pc' = "predict"
                /\ res' = [res EXCEPT !.predict = [p.predict EXCEPT !.called = FALSE]]
    /\ UNCHANGED <<env, model_files, available, model_cache, constructed, requests, req, outfile>>

\* segmentation.py lines 99 and 113: model.predict; it may return no mask
Predict ==
    /\ pc = "predict"
    /\ steps' = Append(steps, "predict")
    /\ \E masks \in BOOLEAN :
          res' = [res EXCEPT !.predict.called = TRUE, !.masks = masks]
    /\ pc' = "postprocess"
    /\ UNCHANGED <<env, model_files, available, model_cache, constructed, requests, req, outfile>>

\* segmentation.py lines 115-135
PostProcessMask ==
    /\ pc = "postprocess"
    /\ steps' = Append(steps, "postprocess")
    /\ \E success \in BOOLEAN :
          LET q == PostProcess(res.masks, success)
          IN  IF q.error # "" THEN Fail(q.error)
              ELSE pc' = "mkdir" /\ res' = [res EXCEPT !.png = q.png]
    /\ UNCHANGED <<env, model_files, available, model_cache, constructed, requests, req, outfile>>

\* line 56
MakeOutputDir ==
    /\ pc = "mkdir"
    /\ steps' = Append(steps, "mkdir")
    /\ \E ok \in BOOLEAN :
          IF ok THEN pc' = "write" /\ res' = res /\ outfile' = "dir"
          ELSE Fail("OSError: mkdir") /\ outfile' = outfile
    /\ UNCHANGED <<env, model_files, available, model_cache, constructed, requests, req>>

\* line 57; a write that fails leaves no file or a partial one
WriteOutput ==
    /\ pc = "write"
    /\ steps' = Append(steps, "write")
    /\ \E ok \in BOOLEAN :
          IF ok THEN pc' = "done" /\ res' = res /\ outfile' = "file"
          ELSE Fail("OSError: write") /\ outfile' \in {"dir", "partial"}
    /\ UNCHANGED <<env, model_files, available, model_cache, constructed, requests, req>>

NextCLI ==
    \/ ReadImage \/ DecodePrompts \/ CheckBbox \/ LoadModel \/ ValidatePrompt
    \/ Predict \/ PostProcessMask \/ MakeOutputDir \/ WriteOutput

SpecCLI == InitCLI /\ [][NextCLI]_vars

----------------------------------------------------------------------------
(* The command-line run: the claims about main (SpecCLI) *)

\* the --bbox-b64 value is not given, empty, or the JSON document null
BboxAbsent == req.bbox_b64 \in {AbsentArg, EmptyArg, JsonArg(None)}

Executed(step) == \E i \in 1..Len(steps) : steps[i] = step

\* C8: with prompt type box and an absent decoded bounding box the run ends with
\* a fatal usage error at the entry point: no model is loaded or cached,
\* model.predict is not invoked and no output file is written.
C8_MissingBboxIsUsageError ==
    (req.prompt_type = "box" /\ BboxAbsent) =>
        /\ Executed("check") => (pc = "failed" /\ res.error = "SystemExit: bbox required")
        /\ ~Executed("load")
        /\ model_cache = <<>> /\ constructed = <<>> /\ res.model = NoModel
        /\ ~res.predict.called
        /\ outfile = "none"
        /\ pc # "done"

C8_Witness ==
    /\ req.prompt_type = "box" /\ req.bbox_b64 = JsonArg(None)
    /\ available /\ req.model_size = "base" /\ req.image.valid
    /\ Executed("check")
    /\ pc = "failed" /\ res.error = "SystemExit: bbox required"

StepOrder ==
    <<"read", "decode", "check", "load", "validate", "predict", "postprocess",
      "mkdir", "write">>

IsPrefix(a, b) == Len(a) <= Len(b) /\ \A i \in 1..Len(a) : a[i] = b[i]

\* the state part of C9
C9_Ordered ==
    /\ IsPrefix(steps, StepOrder)
    /\ pc = "failed" => (res.error # "" /\ outfile # "file")
    /\ (pc = "failed" /\ ~Executed("write")) => outfile = "none"
    /\ res.error # "" => pc = "failed"
    /\ res.predict.called =>
          /\ res.model # NoModel
          /\ res.model = model_cache[cache_key(req.algorithm, req.model_size)]
          /\ req.image.valid
    /\ outfile # "none" =>
          (res.predict.called /\ res.masks /\ res.png /\ IsPrefix(SubSeq(StepOrder, 1, 8), steps))
    /\ outfile = "file" =>
          (pc = "done" /\ steps = StepOrder /\ res.error = "" /\ req.readable)

\* C9: a failure at any step aborts the run, with no retry and no later step; the
\* output directory and file are written only after every preceding step has
\* succeeded; the steps run in the order decode prompts, load model, decode
\* image and validate prompt, predict, post-process, write.
C9_FailureAborts ==
    /\ []C9_Ordered
    /\ [][pc = "failed" => UNCHANGED vars]_vars

C9_Witness ==
    /\ pc = "failed" /\ res.error = "ValueError: no result"
    /\ steps = SubSeq(StepOrder, 1, 7)
    /\ outfile = "none"

C9_WitnessDone == pc = "done" /\ outfile = "file" /\ steps = StepOrder

----------------------------------------------------------------------------
(* Inputs of the prompt-validation specification *)

\* cv2.imdecode's answer: no image, or an image of w x h pixels
Images ==
    {[valid |-> FALSE, w |-> 0, h |-> 0]}
    \cup {[valid |-> TRUE, w |-> w, h |-> h] : w \in {1, MaxDim}, h \in {1, MaxDim}}

\* every coordinate from one pixel left of the image to the right edge of the
\* largest image, in steps of 1/Scale pixel, and NaN
Coords == {F(v) : v \in (-Scale)..(MaxDim * Scale)} \cup {NaN}

Boxes ==
    {None, Some(<<>>), Some(<<F(0), F(0), F(Scale)>>),
     Some(<<F(0), F(0), F(Scale), F(Scale), F(0)>>)}
    \cup {Some(<<a, b, c, d>>) : a \in Coords, b \in Coords, c \in Coords, d \in Coords}

\* a point inside every image, one left of it, one right of and below every image
Points == {<<F(0), F(0)>>, <<F(-Scale), F(0)>>, <<F(MaxDim * Scale), F(MaxDim * Scale)>>}

PointLists ==
    {None, Some(<< <<F(0)>> >>), Some(<< <<F(0), F(0), F(0)>> >>)}
    \cup {Some(s) : s \in UNION {[1..n -> Points] : n \in 0..MaxPoints}}

LabelValues == {-1, 0, 1, 2}

LabelLists ==
    {None, Some([i \in 1..(MaxPoints + 1) |-> 1])}
    \cup {Some(s) : s \in UNION {[1..n -> LabelValues] : n \in 0..MaxPoints}}

NoRes == [error |-> "", predict |-> NoPredict, png |-> FALSE]

\* the arguments of a call in box mode, and of a call in point mode
BoxRequest(i, b) ==
    [kind |-> "seg", image |-> i, prompt_type |-> "box", bbox |-> b,
     points |-> None, labels |-> None]
PointRequest(i, p, l) ==
    [kind |-> "seg", image |-> i, prompt_type |-> "point", bbox |-> None,
     points |-> p, labels |-> l]

InitSeg ==
    /\ env = <<>>
    /\ model_files = <<>>
    /\ available = TRUE
    /\ model_cache = <<>>
    /\ constructed = <<>>
    /\ requests = 0
    /\ pc = "call"
    /\ \/ \E i \in Images, b \in Boxes : req = BoxRequest(i, b)
       \/ \E i \in Images, p \in PointLists, l \in LabelLists : req = PointRequest(i, p, l)
    /\ res = NoRes
    /\ steps = <<>>
    /\ outfile = "none"

\* one call of _segment_with_model on the drawn inputs
Segment ==
    /\ pc = "call"
    /\ \E masks \in BOOLEAN, success \in BOOLEAN :
          res' = _segment_with_model(req.image, req.points, req.labels, req.bbox,
                                     req.prompt_type, masks, success)
    /\ pc' = "returned"
    /\ UNCHANGED <<env, model_files, available, model_cache, constructed, requests, req, steps, outfile>>

NextSeg == Segment

SpecSeg == InitSeg /\ [][NextSeg]_vars

----------------------------------------------------------------------------
(* The model cache: the claims about _load_model (Spec) *)

Served == requests' = requests + 1

\* C1: once a load for a key has succeeded, every later request for that key gets
\* the identical instance, the constructor is never called again for that key, and
\* the cache entry is never removed or replaced, whatever else is requested or fails.
C1_CachedInstanceReused ==
    [][\A k \in DOMAIN model_cache :
          /\ k \in DOMAIN model_cache'
          /\ model_cache'[k] = model_cache[k]
          /\ \A i \in (Len(constructed) + 1)..Len(constructed') : constructed'[i].key # k
          /\ (Served /\ cache_key(req'.algorithm, req'.model_size) = k)
                => res'.model = model_cache[k]]_vars

\* the first instance is handed out again after another key was loaded, to a
\* request that then fails in prompt validation
C1_Witness ==
    /\ requests = 3
    /\ Len(constructed) = 2
    /\ res.model = 1
    /\ model_cache[cache_key(req.algorithm, req.model_size)] = 1
    /\ res.error = "ValueError: no points"

\* the request q names an unsupported size, or a pair whose configured path is empty
BadConfig(q) ==
    LET sz == str_lower(q.model_size)
    IN  \/ sz \notin VALID_MODEL_SIZES
        \/ sz \in VALID_MODEL_SIZES /\ model_files[q.algorithm][sz] = ""

ConfigErrors == {"ValueError: unsupported size", "ValueError: weights not configured"}

\* C2 as stated: a request with an unsupported size or a missing/empty configured
\* weights path fails with a ValueError before the constructor is called and leaves
\* the cache unchanged.
C2_InvalidConfigValueError ==
    [][(Served /\ BadConfig(req')) =>
          /\ res'.error \in ConfigErrors
          /\ constructed' = constructed
          /\ model_cache' = model_cache]_vars

\* C2 as amended: the ValueError is raised when the model library is available;
\* when it is not, the availability error comes first.  In both cases the
\* constructor is not called and the cache is unchanged.
C2_InvalidConfigRejected ==
    [][(Served /\ BadConfig(req')) =>
          /\ available => res'.error \in ConfigErrors
          /\ ~available => res'.error = "RuntimeError: SAM unavailable"
          /\ res'.model = NoModel /\ ~res'.predict.called
          /\ constructed' = constructed
          /\ model_cache' = model_cache]_vars

\* an empty configured path is refused while another model is already cached
C2_Witness ==
    /\ available /\ requests > 1
    /\ BadConfig(req) /\ req.model_size = "tiny"
    /\ res.error = "ValueError: weights not configured"
    /\ model_cache # <<>>

C2_WitnessSize ==
    /\ available /\ req.kind = "lib" /\ req.model_size = "huge"
    /\ res.error = "ValueError: unsupported size"

----------------------------------------------------------------------------
(* Weight resolution: the claim about the base size (SpecConfig) *)

\* the order the claim states, on the values that are unset or not empty:
\* <ALGO>_MODEL_BASE_PATH when set, else <ALGO>_MODEL_PATH when set, else the
\* default file name (an empty value is read either way)
FollowsClaimedOrder(path, e, generic, sized, default) ==
    /\ e[sized] \notin {Unset, ""} => path = e[sized]
    /\ (e[sized] = Unset /\ e[generic] \notin {Unset, ""}) => path = e[generic]
    /\ (e[sized] = Unset /\ e[generic] = Unset) => path = default

\* C10: for the base size the path is resolved from <ALGO>_MODEL_BASE_PATH first,
\* from <ALGO>_MODEL_PATH only as a fallback, and is the default file name when
\* neither is set.
C10_BasePathPriority ==
    pc # "import" =>
        /\ FollowsClaimedOrder(model_files.sam["base"], env,
                               "SAM_MODEL_PATH", "SAM_MODEL_BASE_PATH", "sam_b.pt")
        /\ FollowsClaimedOrder(model_files.sam2["base"], env,
                               "SAM2_MODEL_PATH", "SAM2_MODEL_BASE_PATH", "sam2_b.pt")

\* the order the code follows: <ALGO>_MODEL_PATH when set and not empty, else
\* <ALGO>_MODEL_BASE_PATH when set (even empty), else the default file name
ActualBase(e, generic, sized, default) ==
    IF e[generic] \notin {Unset, ""} THEN e[generic]
    ELSE IF e[sized] # Unset THEN e[sized]
    ELSE default

C10_ActualPriority ==
    pc # "import" =>
        /\ model_files.sam["base"] =
              ActualBase(env, "SAM_MODEL_PATH", "SAM_MODEL_BASE_PATH", "sam_b.pt")
        /\ model_files.sam2["base"] =
              ActualBase(env, "SAM2_MODEL_PATH", "SAM2_MODEL_BASE_PATH", "sam2_b.pt")

----------------------------------------------------------------------------
(* Prompt validation: the claims about _segment_with_model (SpecSeg) *)

BoxCall == pc = "returned" /\ req.prompt_type = "box" /\ res.predict.called
PointCall == pc = "returned" /\ req.prompt_type = "point" /\ res.predict.called
FourValueBox == ~req.bbox.none /\ Len(req.bbox.val) = 4
FiniteBox == FourValueBox /\ \A i \in 1..4 : ~req.bbox.val[i].nan
LastX == (req.image.w - 1) * Scale
LastY == (req.image.h - 1) * Scale

\* a finite coordinate value clipped to [0, last]
Clipped(v, last) == IF v < 0 THEN 0 ELSE IF v > last THEN last ELSE v

\* the box the claim expects for the finite input box b
ExpectedBox(b) ==
    LET xa == Clipped(b[1].v, LastX)   xb == Clipped(b[3].v, LastX)
        ya == Clipped(b[2].v, LastY)   yb == Clipped(b[4].v, LastY)
    IN  <<F(Min(xa, xb)), F(Min(ya, yb)), F(Max(xa, xb)), F(Max(ya, yb))>>

InImage(b) ==
    /\ \A i \in 1..4 : ~b[i].nan
    /\ 0 <= b[1].v /\ b[1].v <= b[3].v /\ b[3].v <= LastX
    /\ 0 <= b[2].v /\ b[2].v <= b[4].v /\ b[4].v <= LastY

\* C3: in box mode the box handed to model.predict is the input box with its x
\* values clipped to [0, width-1] and ordered min first, its y values clipped to
\* [0, height-1] and ordered min first; the model never receives a box with
\* x_min > x_max, y_min > y_max or a coordinate outside the image.
C3_BoxNormalized ==
    BoxCall =>
        /\ Len(res.predict.bboxes) = 1
        /\ InImage(res.predict.bboxes[1])
        /\ FiniteBox => res.predict.bboxes[1] = ExpectedBox(req.bbox.val)

\* C3 restricted to boxes of four finite coordinates (what the code does achieve)
C3_FiniteBoxNormalized ==
    (BoxCall /\ FiniteBox) =>
        /\ res.predict.bboxes = << ExpectedBox(req.bbox.val) >>
        /\ InImage(res.predict.bboxes[1])

\* width or height of the finite box b, after clipping and reordering, under 1 pixel
ClippedTooSmall(b) ==
    LET e == ExpectedBox(b)
    IN  e[3].v - e[1].v < Scale \/ e[4].v - e[2].v < Scale

\* the finite box b lies entirely outside the image on one axis
OutsideOnAxis(b) ==
    \/ b[1].v < 0 /\ b[3].v < 0
    \/ b[1].v > LastX /\ b[3].v > LastX
    \/ b[2].v < 0 /\ b[4].v < 0
    \/ b[2].v > LastY /\ b[4].v > LastY

Rejected == res.error # "" /\ ~res.predict.called /\ ~res.png

\* C4: in box mode a box whose width or height after clipping and reordering is
\* under 1 pixel is rejected and model.predict is not invoked; this includes a box
\* entirely outside the image on one axis and any box on an image 1 pixel wide or high.
C4_SmallBoxRejected ==
    (pc = "returned" /\ req.prompt_type = "box" /\ req.image.valid /\ FourValueBox) =>
        /\ (FiniteBox /\ ClippedTooSmall(req.bbox.val)) => Rejected
        /\ (FiniteBox /\ OutsideOnAxis(req.bbox.val)) => Rejected
        /\ (req.image.w = 1 \/ req.image.h = 1) => Rejected

\* C4 restricted to boxes of four finite coordinates (what the code does achieve)
C4_FiniteSmallBoxRejected ==
    (pc = "returned" /\ req.prompt_type = "box" /\ req.image.valid /\ FiniteBox) =>
        /\ ClippedTooSmall(req.bbox.val) => Rejected
        /\ OutsideOnAxis(req.bbox.val) => Rejected
        /\ (req.image.w = 1 \/ req.image.h = 1) => Rejected

\* C5: in point mode every point handed to model.predict lies within the image:
\* 0 <= x <= width-1 and 0 <= y <= height-1.
C5_PointsWithinImage ==
    PointCall =>
        \A i \in 1..Len(res.predict.points) :
            LET q == res.predict.points[i]
            IN  /\ ~q[1].nan /\ 0 <= q[1].v /\ q[1].v <= LastX
                /\ ~q[2].nan /\ 0 <= q[2].v /\ q[2].v <= LastY

\* what the code does instead: the points reach model.predict as supplied
C5_PointsPassedUnchanged == PointCall => res.predict.points = req.points.val

NumPoints == IF req.points.none THEN 0 ELSE Len(req.points.val)

\* C6: in point mode a request whose supplied label list has another number of
\* entries than the point list fails, and model.predict is not invoked.
C6_LabelCountMismatchFails ==
    (pc = "returned" /\ req.prompt_type = "point"
        /\ ~req.labels.none /\ Len(req.labels.val) # NumPoints) => Rejected

C6_Witness ==
    /\ pc = "returned" /\ req.prompt_type = "point" /\ req.image.valid
    /\ NumPoints = 2 /\ ~req.labels.none /\ Len(req.labels.val) = 1
    /\ res.error = "ValueError: label count" /\ ~res.predict.called

\* a label clamped into [0, 1] as the claim words it
Clamped(l) == IF l < 0 THEN 0 ELSE IF l > 1 THEN 1 ELSE l

\* C7: in point mode the label vector handed to model.predict has one entry per
\* point, every entry in {0,1}: all 1 when no labels are supplied, else entry i is
\* the supplied label i clamped into [0,1].
C7_LabelsClamped ==
    PointCall =>
        /\ Len(res.predict.labels) = Len(res.predict.points)
        /\ Len(res.predict.labels) = NumPoints
        /\ \A i \in 1..Len(res.predict.labels) :
              /\ res.predict.labels[i] \in {0, 1}
              /\ req.labels.none => res.predict.labels[i] = 1
              /\ ~req.labels.none => res.predict.labels[i] = Clamped(req.labels.val[i])

C7_Witness ==
    /\ PointCall
    /\ req.labels = Some(<<-1, 2>>)
    /\ res.predict.labels = <<0, 1>>

C7_WitnessNoLabels ==
    PointCall /\ req.labels.none /\ res.predict.labels = <<1, 1>>

====
